---- MODULE Spec2Model ----
(***************************************************************************)
(* A model of pellared/taskflow: the Taskflow registry (taskflow.go), the  *)
(* flow runner (flow_runner.go), the buffered output (bufferedOutput) and  *)
(* the typed accessors of Params (params.go).                              *)
(*                                                                         *)
(* The registry is the map f.tasks plus f.params, f.verbose and            *)
(* f.DefaultTask.  One invocation of Taskflow.Run is modelled step by      *)
(* step: the argument loop handles one argument per step, and the          *)
(* recursive flowRunner.run is unfolded on an explicit call stack, so that *)
(* the cancellation of the context can fall between any two steps.         *)
(***************************************************************************)
EXTENDS Integers, Sequences, FiniteSets, TLC

\* ------------------------------------------------------------------ bounds
\* longest Dependencies list handed to Register in the general exploration
MaxDeps == 2
\* longest argument list handed to Run
MaxArgs == 2
\* longest list of task names handed to Run in the scenario of Test_successful
MaxNames == 3
\* the counting bodies of Test_successful stop a new Run once a counter is here
MaxCount == 3
\* longest argument list handed to Run in the exploration of the parsing
MaxTokens == 3
\* most calls of Write on one buffer
MaxWrites == 2

\* ------------------------------------------------------- program constants
CodePass == 0
CodeFailure == 1
CodeInvalidArgs == 2

\* the value of a variable that holds no status code / no error / no name
NoCode == -1
NoErr == "nil"
NoName == ""

\* ---------------------------------------------------------------- universe
\* task names used by the callers of Register
TaskNames == {"a", "b", "c", "d"}
\* the name of a task that is registered to another Taskflow only
ForeignName == "z"
\* a Task's Command is "nil", "log" (a body that only logs) or "count" (the
\* counting body of Test_successful: executedN++)

\* names of the parameters: "v" is the out-of-the-box verbose parameter,
\* "n" an integer parameter registered with RegisterIntParam(0, ...), "help"
\* a string parameter registered with RegisterStringParam("", ...): its long
\* flag is the help token --help
VerboseName == "v"
IntName == "n"
StringName == "help"

RECURSIVE SeqsUpTo(_, _)
\* all sequences over S of length at most n
SeqsUpTo(S, n) ==
  IF n = 0 THEN {<<>>}
  ELSE LET shorter == SeqsUpTo(S, n - 1)
       IN  shorter \cup {Append(s, x) : s \in {t \in shorter : Len(t) = n - 1}, x \in S}

Range(s) == {s[i] : i \in 1..Len(s)}

\* a Task value as handed to Register
Task(name, command, deps, parameters) ==
  [Name |-> name, Command |-> command, Dependencies |-> deps, Parameters |-> parameters]

\* ------------------------------------------------------------------- state
VARIABLES
  tasks,        \* Taskflow.tasks: the registered tasks, by name
  tasksMade,    \* whether Taskflow.tasks is a map already (isRegistered makes it)
  params,       \* Taskflow.params: the names of the registered parameters
  verbose,      \* Taskflow.verbose # nil
  DefaultTask,  \* Taskflow.DefaultTask.name
  regName,      \* the Name of the task of the last Register call
  regErr,       \* the error the last Register call returned
  pc,           \* where the invocation of Run is ("idle": no Run in progress)
  ctxErr,       \* ctx.Err() of the context handed to Run
  args,         \* the args of Run that its loop has handled so far
  argErr,       \* whether the last call of argHandler returned an error
  argHandler,   \* the parameter whose value the next argument is, or NoName
  paramValues,  \* flowRunner.paramValues
  usageRequested,
  taskList,     \* the local tasks of flowRunner.Run, the tasks of runTasks
  reqi,         \* the index in taskList of the task runTasks is running
  stack,        \* the calls of flowRunner.run in progress: <<[name, dep]>>
  executed,     \* executedTasks of the last runTasks, as a set of names
  passed,       \* the local passed of flowRunner.run
  runErr,       \* the error flowRunner.run returned to runTasks, or NoErr
  code,         \* the status code the last Run returned, or NoCode
  written,      \* the lines this invocation wrote to flowRunner.output
  invoked,      \* the bodies this invocation started: <<[name, result]>>
  count,        \* executedN of the counting bodies of Test_successful
  countBefore,  \* got() of Test_successful as the invocation started
  entries,      \* bufferedOutput.entries: <<[primary, data]>>, data an address
  heap,         \* the byte arrays, by address: the slices of the callers of
                \* Write first, then the arrays that Write makes
  mutex,        \* bufferedOutput.mutex is locked
  writer,       \* the goroutines that call Write: where each is, its locals
  appended,     \* the Write calls in the order add appended their entries
  replay,       \* the goroutine that calls WriteTo: where it is, its locals
  delivered,    \* what the writers of the destination Output were handed
  paramsMap,    \* a Params value: the text of every key that is present
  got           \* the last call of an accessor of Params and its results

bufferVars == <<entries, heap, mutex, writer, appended, replay, delivered>>

accessorVars == <<paramsMap, got>>

registryVars == <<tasks, tasksMade, params, verbose, DefaultTask, regName, regErr>>

runVars == <<pc, ctxErr, args, argErr, argHandler, paramValues, usageRequested, taskList,
             reqi, stack, executed, passed, runErr, code, written, invoked, count,
             countBefore>>

\* the variables of the buffered output and of the Params accessors
otherVars == <<bufferVars, accessorVars>>

vars == <<registryVars, runVars, otherVars>>

\* the errors of Register
ErrEmptyName == "task name cannot be empty"
ErrRegistered == "task was already registered"
ErrDependency == "invalid dependency"

\* ---------------------------------------------------------------- registry
Registered == DOMAIN tasks

\* Taskflow.isRegistered: the lookup (its making of the map is in Register)
isRegistered(name) == name \in Registered

\* Register without the check of the name against the registered tasks
RegisterErrorNoDuplicate(task) ==
  IF task.Name = NoName THEN ErrEmptyName
  ELSE IF \E i \in 1..Len(task.Dependencies) : ~isRegistered(task.Dependencies[i])
       THEN ErrDependency
  ELSE NoErr

\* Register without the check of the dependencies
RegisterErrorNoDependency(task) ==
  IF task.Name = NoName THEN ErrEmptyName
  ELSE IF isRegistered(task.Name) THEN ErrRegistered
  ELSE NoErr

\* the validation of Register: the error the call returns
RegisterError(task) ==
  IF task.Name = NoName THEN ErrEmptyName
  ELSE IF isRegistered(task.Name) THEN ErrRegistered
  ELSE IF \E i \in 1..Len(task.Dependencies) : ~isRegistered(task.Dependencies[i])
       THEN ErrDependency
  ELSE NoErr

\* f.tasks[task.Name] = task
StoreTask(reg, task) ==
  [n \in DOMAIN reg \cup {task.Name} |-> IF n = task.Name THEN task ELSE reg[n]]

\* Taskflow.Register. The Parameters of a task are handles that only a
\* Register*Param call returns, so the parameters are registered already.
Register(task) ==
  /\ pc = "idle"
  /\ task.Parameters \subseteq params
  /\ regName' = task.Name
  /\ regErr' = RegisterError(task)
  /\ tasksMade' = (tasksMade \/ task.Name # NoName)
  /\ tasks' = IF RegisterError(task) = NoErr THEN StoreTask(tasks, task) ELSE tasks
  /\ UNCHANGED <<params, verbose, DefaultTask>>
  /\ UNCHANGED runVars
  /\ UNCHANGED otherVars

\* Taskflow.VerboseParam: registers the verbose parameter once
VerboseParam ==
  /\ pc = "idle"
  /\ verbose' = TRUE
  /\ params' = params \cup {VerboseName}
  /\ UNCHANGED <<tasks, tasksMade, DefaultTask, regName, regErr>>
  /\ UNCHANGED runVars
  /\ UNCHANGED otherVars

\* Taskflow.RegisterIntParam(0, ParameterInfo{Name: "n"}); registerParam panics
\* when the name is registered already
RegisterIntParam ==
  /\ pc = "idle"
  /\ IntName \notin params
  /\ params' = params \cup {IntName}
  /\ UNCHANGED <<tasks, tasksMade, verbose, DefaultTask, regName, regErr>>
  /\ UNCHANGED runVars
  /\ UNCHANGED otherVars

\* Taskflow.RegisterStringParam("", ParameterInfo{Name: "help"})
RegisterStringParam ==
  /\ pc = "idle"
  /\ StringName \notin params
  /\ params' = params \cup {StringName}
  /\ UNCHANGED <<tasks, tasksMade, verbose, DefaultTask, regName, regErr>>
  /\ UNCHANGED runVars
  /\ UNCHANGED otherVars

\* the caller sets Taskflow.DefaultTask to a handle Register returned, or to
\* the zero RegisteredTask. The field is assigned without any check, so the
\* handle can also be one that the Register of another Taskflow returned
SetDefaultTask(name) ==
  /\ pc = "idle"
  /\ name \in Registered \cup {NoName, ForeignName}
  /\ name # DefaultTask
  /\ DefaultTask' = name
  /\ UNCHANGED <<tasks, tasksMade, params, verbose, regName, regErr>>
  /\ UNCHANGED runVars
  /\ UNCHANGED otherVars

\* -------------------------------------------------------------- parameters
\* an argument, as strings.SplitN(arg, "=", 2) sees it: the text before the
\* first "=", whether there is one, and the text after it
Arg(flag, eq, val) == [flag |-> flag, eq |-> eq, val |-> val]
Bare(text) == Arg(text, FALSE, "")

\* the argument as one string
ArgText(arg) == IF arg.eq THEN arg.flag \o "=" \o arg.val ELSE arg.flag

\* ParameterInfo.longFlag and ParameterInfo.shortFlag
longFlag(name) == "--" \o name
shortFlag(name) == IF name = VerboseName THEN "-" \o name ELSE ""

\* Value.IsBool of the value of a parameter
IsBool(name) == name = VerboseName

\* parameter.newValue(): the default value
newValue(name) == IF IsBool(name) THEN FALSE ELSE IF name = StringName THEN "" ELSE 0

\* the integer literals and the boolean tokens the arguments can hold
IntLiterals == [t \in {"0", "1"} |-> IF t = "0" THEN 0 ELSE 1]
TrueTokens == {"", "1", "t", "T", "TRUE", "true", "True"}
FalseTokens == {"0", "f", "F", "FALSE", "false", "False"}

\* Value.Set(s) of the value of parameter name: whether it returns an error,
\* and the value afterwards (old is the value before)
Set(name, old, s) ==
  IF IsBool(name)
  THEN IF s \in TrueTokens THEN [err |-> FALSE, value |-> TRUE]
       ELSE IF s \in FalseTokens THEN [err |-> FALSE, value |-> FALSE]
       ELSE [err |-> TRUE, value |-> old]
  ELSE IF name = StringName THEN [err |-> FALSE, value |-> s]
  ELSE IF s \in DOMAIN IntLiterals THEN [err |-> FALSE, value |-> IntLiterals[s]]
       ELSE [err |-> TRUE, value |-> old]

\* valuesByFlag of flowRunner.Run: the parameter a flag names, or NoName
valuesByFlag(flag) ==
  IF \E p \in params : flag \in {longFlag(p), shortFlag(p)} \ {""}
  THEN CHOOSE p \in params : flag \in {longFlag(p), shortFlag(p)} \ {""}
  ELSE NoName

\* a line written to the output
Line(kind, text) == [kind |-> kind, text |-> text]

HelpTokens == {"-h", "--help", "help"}

\* ------------------------------------------------------- argument parsing
\* paramValues of flowRunner.Run: a new value for every parameter
NewParamValues(old, registered) == [p \in registered |-> newValue(p)]

\* Taskflow.Run and the head of flowRunner.Run: the verbose parameter is
\* registered, every parameter gets a new value, the parsing state is made.
\* (The result of the last Register call is of no use any more.)
RunBegin ==
  /\ pc = "idle"
  /\ \A n \in DOMAIN count : count[n] < MaxCount
  /\ verbose' = TRUE
  /\ params' = params \cup {VerboseName}
  /\ paramValues' = NewParamValues(paramValues, params \cup {VerboseName})
  /\ args' = <<>>
  /\ argErr' = FALSE
  /\ argHandler' = NoName
  /\ usageRequested' = FALSE
  /\ taskList' = <<>>
  /\ ctxErr' = NoErr
  /\ runErr' = NoErr
  /\ code' = NoCode
  /\ written' = <<>>
  /\ invoked' = <<>>
  /\ stack' = <<>>
  /\ reqi' = 0
  /\ passed' = FALSE
  /\ countBefore' = count
  /\ pc' = "args"
  /\ regName' = NoName
  /\ regErr' = NoErr
  /\ UNCHANGED <<tasks, tasksMade, DefaultTask, executed, count>>
  /\ UNCHANGED otherVars

\* a handler that stays installed: argHandler = nextHandler is missing
NextArgHandlerKept(arg) ==
  LET r == Set(argHandler, paramValues[argHandler], ArgText(arg))
  IN  [err |-> r.err,
       paramValues |-> [paramValues EXCEPT ![argHandler] = r.value],
       argHandler |-> argHandler,
       taskList |-> taskList,
       usageRequested |-> usageRequested,
       written |-> written]

\* the handler handleNextArgFor installs: the argument is the value
NextArgHandler(arg) ==
  LET r == Set(argHandler, paramValues[argHandler], ArgText(arg))
  IN  [err |-> r.err,
       paramValues |-> [paramValues EXCEPT ![argHandler] = r.value],
       argHandler |-> NoName,
       taskList |-> taskList,
       usageRequested |-> usageRequested,
       written |-> written]

\* a flag without its value is an error at once
handleNextArgForMissing(result, p) == [result EXCEPT !.err = TRUE]

\* handleNextArgFor(value); return nil: the handler for the value of p is
\* installed, nothing else happens
handleNextArgFor(result, p) == [result EXCEPT !.argHandler = p]

\* the first argHandler: a task, a flag, a help token or an unknown argument
MainArgHandler(arg) ==
  LET same == [err |-> FALSE, paramValues |-> paramValues, argHandler |-> NoName,
               taskList |-> taskList, usageRequested |-> usageRequested,
               written |-> written]
      p == valuesByFlag(arg.flag)
      inline == Set(p, paramValues[p], arg.val)
      bare == Set(p, paramValues[p], "")
  IN  IF ArgText(arg) \in Registered
      THEN [same EXCEPT !.taskList = Append(taskList, ArgText(arg))]
      ELSE IF p # NoName
      THEN IF arg.eq
           THEN [same EXCEPT !.err = inline.err,
                             !.paramValues = [paramValues EXCEPT ![p] = inline.value]]
           ELSE IF IsBool(p)
           THEN [same EXCEPT !.err = bare.err,
                             !.paramValues = [paramValues EXCEPT ![p] = bare.value]]
           ELSE handleNextArgFor(same, p)
      ELSE IF ArgText(arg) \in HelpTokens
      THEN [same EXCEPT !.usageRequested = TRUE]
      ELSE [same EXCEPT !.err = TRUE,
                        !.written = Append(written, Line("unknown argument", ArgText(arg)))]

\* the loop over args going on after an error
LoopExitsNever(err) == FALSE

\* if err != nil { return CodeInvalidArgs } of the loop over args
LoopExits(err) == err

\* one turn of the loop over args, for the next argument arg: an error
\* returns CodeInvalidArgs. The loop reads the arguments one by one and never
\* looks ahead, so each argument is drawn as the loop comes to it.
HandleArg(arg) ==
  /\ pc = "args"
  /\ args' = Append(args, arg)
  /\ LET r == IF argHandler # NoName THEN NextArgHandler(arg)
              ELSE MainArgHandler(arg)
     IN  /\ paramValues' = r.paramValues
         /\ argHandler' = r.argHandler
         /\ taskList' = r.taskList
         /\ usageRequested' = r.usageRequested
         /\ written' = r.written
         /\ argErr' = r.err
         /\ IF LoopExits(r.err)
            THEN /\ code' = CodeInvalidArgs
                 /\ pc' = "returned"
            ELSE UNCHANGED <<code, pc>>
  /\ UNCHANGED registryVars
  /\ UNCHANGED <<ctxErr, reqi, stack, executed, passed, runErr, invoked, count, countBefore>>
  /\ UNCHANGED otherVars

\* the lines printUsage writes, as one
Usage == Line("usage", "")

\* runTasks going on with the map of the invocation before
NewExecutedKept(old) == old

\* executedTasks := map[string]bool{} of runTasks
NewExecuted(old) == {}

\* the tasks to run: the default task when none is given
WithDefault(list) ==
  IF list = <<>> /\ DefaultTask # NoName THEN <<DefaultTask>> ELSE list

\* Run going on to the tasks although usage is requested
UsageWantedNever(requested) == FALSE

\* if usageRequested { printUsage(f); return CodePass }
UsageWanted(requested) == requested

\* the end of flowRunner.Run after the loop, when args has no more
\* arguments: usage, the default task, no task, or runTasks up to its first
\* call of run
EndArgs ==
  /\ pc = "args"
  /\ IF UsageWanted(usageRequested)
     THEN /\ written' = Append(written, Usage)
          /\ code' = CodePass
          /\ pc' = "returned"
          /\ UNCHANGED <<taskList, executed, reqi, stack>>
     ELSE IF WithDefault(taskList) = <<>>
     THEN /\ written' = written \o <<Line("no task provided", ""), Usage>>
          /\ code' = CodeInvalidArgs
          /\ pc' = "returned"
          /\ UNCHANGED <<taskList, executed, reqi, stack>>
     ELSE /\ taskList' = WithDefault(taskList)
          /\ executed' = NewExecuted(executed)
          /\ reqi' = 1
          /\ stack' = <<[name |-> WithDefault(taskList)[1], dep |-> 1]>>
          /\ pc' = "call"
          /\ UNCHANGED <<written, code>>
  /\ UNCHANGED registryVars
  /\ UNCHANGED <<ctxErr, args, argErr, argHandler, paramValues, usageRequested, passed,
                 runErr, invoked, count, countBefore>>
  /\ UNCHANGED otherVars

\* ------------------------------------------------------------ flow runner
\* task := f.tasks[name]: the zero Task when the name is not registered
TaskOf(name) ==
  IF name \in Registered THEN tasks[name] ELSE Task(NoName, "nil", <<>>, {})

Top == stack[Len(stack)]
Pop(s) == SubSeq(s, 1, Len(s) - 1)

ErrTaskFailed == "task failed"
\* what ctx.Err() can be once the context is done
CtxErrors == {"context canceled", "context deadline exceeded"}

\* the context handed to Run is cancelled, or its deadline passes. Run reads
\* ctx.Err() for the first time after the arguments, so a context that is
\* done earlier (also before Run is called) is one that is done as runTasks
\* starts
Cancel(e) ==
  /\ pc \notin {"idle", "args", "returned"}
  /\ ctxErr = NoErr
  /\ ctxErr' = e
  /\ UNCHANGED registryVars
  /\ UNCHANGED <<pc, args, argErr, argHandler, paramValues, usageRequested, taskList,
                 reqi, stack, executed, passed, runErr, code, written, invoked, count,
                 countBefore>>
  /\ UNCHANGED otherVars

\* runTasks returning CodePass after an error
ReturnErrAsPass(e) ==
  /\ runErr' = e
  /\ stack' = <<>>
  /\ written' = Append(written, Line("error", e))
  /\ code' = CodePass
  /\ pc' = "returned"
  /\ UNCHANGED reqi

\* flowRunner.run returns err # nil: every caller up the stack returns it,
\* runTasks prints it and returns CodeFailure
ReturnErr(e) ==
  /\ runErr' = e
  /\ stack' = <<>>
  /\ written' = Append(written, Line("error", e))
  /\ code' = CodeFailure
  /\ pc' = "returned"
  /\ UNCHANGED reqi

\* flowRunner.run returns nil: the caller goes on with its next dependency,
\* runTasks with its next task, or prints ok and returns CodePass
ReturnNil ==
  /\ UNCHANGED runErr
  /\ IF Len(stack) > 1
     THEN /\ stack' = [Pop(stack) EXCEPT ![Len(stack) - 1].dep = @ + 1]
          /\ pc' = "deps"
          /\ UNCHANGED <<reqi, written, code>>
     ELSE IF reqi < Len(taskList)
     THEN /\ reqi' = reqi + 1
          /\ stack' = <<[name |-> taskList[reqi + 1], dep |-> 1]>>
          /\ pc' = "call"
          /\ UNCHANGED <<written, code>>
     ELSE /\ stack' = <<>>
          /\ written' = Append(written, Line("ok", ""))
          /\ code' = CodePass
          /\ pc' = "returned"
          /\ UNCHANGED reqi

\* the entry of flowRunner.run: a task that is executed already returns nil
RunCall ==
  /\ pc = "call"
  /\ IF Top.name \in executed
     THEN ReturnNil
     ELSE /\ pc' = "deps"
          /\ UNCHANGED <<stack, reqi, runErr, written, code>>
  /\ UNCHANGED registryVars
  /\ UNCHANGED <<ctxErr, args, argErr, argHandler, paramValues, usageRequested, taskList,
                 executed, passed, invoked, count, countBefore>>
  /\ UNCHANGED otherVars

\* run going through the dependencies from the last to the first
DependenciesReversed(name) ==
  LET deps == TaskOf(name).Dependencies
  IN  [i \in 1..Len(deps) |-> deps[Len(deps) + 1 - i]]

\* run going on to the task without running its dependencies
DependenciesNone(name) == <<>>

\* task.Dependencies of the task flowRunner.run looks up
Dependencies(name) == TaskOf(name).Dependencies

\* the loop of flowRunner.run over task.Dependencies: the call of run for
\* the next dependency, or the loop's end
RunDeps ==
  /\ pc = "deps"
  /\ LET deps == Dependencies(Top.name)
     IN  IF Top.dep <= Len(deps)
         THEN /\ stack' = Append(stack, [name |-> deps[Top.dep], dep |-> 1])
              /\ pc' = "call"
         ELSE /\ pc' = "check"
              /\ UNCHANGED stack
  /\ UNCHANGED registryVars
  /\ UNCHANGED <<ctxErr, args, argErr, argHandler, paramValues, usageRequested, taskList,
                 reqi, executed, passed, runErr, code, written, invoked, count,
                 countBefore>>
  /\ UNCHANGED otherVars

\* run going on to runTask without the check of ctx.Err() before it
CheckBeforeSkipped ==
  /\ pc = "check"
  /\ pc' = "runTask"
  /\ UNCHANGED registryVars
  /\ UNCHANGED <<ctxErr, args, argErr, argHandler, paramValues, usageRequested, taskList,
                 reqi, stack, executed, passed, runErr, code, written, invoked, count,
                 countBefore>>
  /\ UNCHANGED otherVars

\* ctx.Err() before the task is run
CheckBefore ==
  /\ pc = "check"
  /\ IF ctxErr # NoErr
     THEN ReturnErr(ctxErr)
     ELSE /\ pc' = "runTask"
          /\ UNCHANGED <<stack, reqi, runErr, written, code>>
  /\ UNCHANGED registryVars
  /\ UNCHANGED <<ctxErr, args, argErr, argHandler, paramValues, usageRequested, taskList,
                 executed, passed, invoked, count, countBefore>>
  /\ UNCHANGED otherVars

\* f.verbose.Get(tf): the value of the verbose parameter
Verbose == paramValues[VerboseName]

\* flowRunner.runTask up to the call of the body: a task without a Command
\* has passed; otherwise the start line is written (to the output when
\* verbose, else to the strings.Builder) and the body starts
RunTask ==
  /\ pc = "runTask"
  /\ LET task == TaskOf(Top.name)
     IN  IF task.Command = "nil"
         THEN /\ passed' = TRUE
              /\ pc' = "after"
              /\ UNCHANGED <<written, invoked, count>>
         ELSE /\ invoked' = Append(invoked, [name |-> Top.name, result |-> "RUN"])
              /\ written' = IF Verbose THEN Append(written, Line("TASK", Top.name))
                            ELSE written
              /\ count' = IF task.Command = "count"
                          THEN [n \in DOMAIN count \cup {Top.name} |->
                                  IF n = Top.name
                                  THEN (IF n \in DOMAIN count THEN count[n] ELSE 0) + 1
                                  ELSE count[n]]
                          ELSE count
              /\ pc' = "body"
              /\ UNCHANGED passed
  /\ UNCHANGED registryVars
  /\ UNCHANGED <<ctxErr, args, argErr, argHandler, paramValues, usageRequested, taskList,
                 reqi, stack, executed, runErr, code, countBefore>>
  /\ UNCHANGED otherVars

\* the results of a body: Runner.Run gives a result that failed, was
\* skipped, or neither
Results == {"PASS", "FAIL", "SKIP"}

\* what the body and the end of measuredCommand write for a task
TaskLines(task, result) ==
  (IF task.Command = "log" THEN <<Line("log", task.Name)>> ELSE <<>>)
    \o <<Line(result, task.Name)>>

\* runTask that never sets failed
PassedAlways(result) == TRUE

\* return !failed of runTask: failed is set when result.Failed()
Passed(result) == result # "FAIL"

\* the strings.Builder copied to the output whatever the result
ForwardedAlways(result) == TRUE

\* ok && result.failed: the strings.Builder is copied to the output
Forwarded(result) == result = "FAIL"

\* the body returns with a result: the end line is written; when not
\* verbose, the strings.Builder is copied to the output if the body failed
BodyEnd(result) ==
  /\ pc = "body"
  /\ invoked' = [invoked EXCEPT ![Len(invoked)].result = result]
  /\ written' = IF Verbose THEN written \o TaskLines(TaskOf(Top.name), result)
                ELSE IF Forwarded(result)
                THEN written \o <<Line("TASK", Top.name)>> \o TaskLines(TaskOf(Top.name), result)
                ELSE written
  /\ passed' = Passed(result)
  /\ pc' = "after"
  /\ UNCHANGED registryVars
  /\ UNCHANGED <<ctxErr, args, argErr, argHandler, paramValues, usageRequested, taskList,
                 reqi, stack, executed, runErr, code, count, countBefore>>
  /\ UNCHANGED otherVars

\* run without executed[name] = true
MarkExecutedNever(set, name) == set

\* executed[name] = true
MarkExecuted(set, name) == set \cup {name}

\* run looking at passed before it looks at ctx.Err()
CheckAfterFailedFirst ==
  /\ pc = "after"
  /\ IF ~passed
     THEN /\ ReturnErr(ErrTaskFailed)
          /\ UNCHANGED executed
     ELSE IF ctxErr # NoErr
     THEN /\ ReturnErr(ctxErr)
          /\ UNCHANGED executed
     ELSE /\ executed' = MarkExecuted(executed, Top.name)
          /\ ReturnNil
  /\ UNCHANGED registryVars
  /\ UNCHANGED <<ctxErr, args, argErr, argHandler, paramValues, usageRequested, taskList,
                 passed, invoked, count, countBefore>>
  /\ UNCHANGED otherVars

\* the end of flowRunner.run: ctx.Err() after the task, the failed task, or
\* the task is executed and run returns nil
CheckAfter ==
  /\ pc = "after"
  /\ IF ctxErr # NoErr
     THEN /\ ReturnErr(ctxErr)
          /\ UNCHANGED executed
     ELSE IF ~passed
     THEN /\ ReturnErr(ErrTaskFailed)
          /\ UNCHANGED executed
     ELSE /\ executed' = MarkExecuted(executed, Top.name)
          /\ ReturnNil
  /\ UNCHANGED registryVars
  /\ UNCHANGED <<ctxErr, args, argErr, argHandler, paramValues, usageRequested, taskList,
                 passed, invoked, count, countBefore>>
  /\ UNCHANGED otherVars

\* Run has returned its status code to the caller, who is free to call the
\* Taskflow again. The flowRunner and the locals of the invocation are gone;
\* what the model keeps of them is paramValues and executed, as the last
\* invocation left them.
Return ==
  /\ pc = "returned"
  /\ pc' = "idle"
  /\ args' = <<>>
  /\ argErr' = FALSE
  /\ argHandler' = NoName
  /\ usageRequested' = FALSE
  /\ taskList' = <<>>
  /\ reqi' = 0
  /\ stack' = <<>>
  /\ passed' = FALSE
  /\ ctxErr' = NoErr
  /\ runErr' = NoErr
  /\ code' = NoCode
  /\ written' = <<>>
  /\ invoked' = <<>>
  /\ countBefore' = count
  /\ UNCHANGED registryVars
  /\ UNCHANGED <<paramValues, executed, count>>
  /\ UNCHANGED otherVars

\* -------------------------------------------------------- buffered output
\* the goroutines that write to the buffer; the byte slice that goroutine w
\* hands to Write is at address w of the heap
Writers == {1, 2}
\* what the callers put in their slices
Payloads == {<<1>>, <<2, 3>>}

\* the number of Write calls so far
WriteCalls == writer[1].n + writer[2].n

\* the caller of Write fills its slice, also after a Write has returned
Fill(w, bytes) ==
  /\ writer[w].pc = "idle"
  /\ heap[w] # bytes
  /\ heap' = [heap EXCEPT ![w] = bytes]
  /\ UNCHANGED <<entries, mutex, writer, appended, replay, delivered>>
  /\ UNCHANGED <<registryVars, runVars, accessorVars>>

\* an entry that keeps the slice of the caller
NewEntryAliased(w, primary) ==
  [entry |-> [primary |-> primary, data |-> w], heap |-> heap]

\* entry := &bufferedEntry{primary: w.primary, data: make([]byte, n)} and
\* copy(entry.data, p): a new array of the heap gets the bytes of p
NewEntry(w, primary) ==
  [entry |-> [primary |-> primary, data |-> Len(heap) + 1],
   heap |-> Append(heap, [i \in 1..Len(heap[w]) |-> heap[w][i]])]

\* bufferedWriter.Write of goroutine w up to its call of add; primary tells
\* which of the two writers of Output() is written to
Write(w, primary) ==
  /\ writer[w].pc = "idle"
  /\ WriteCalls < MaxWrites
  /\ LET new == NewEntry(w, primary)
     IN  /\ heap' = new.heap
         /\ writer' = [writer EXCEPT ![w] = [pc |-> "add", entry |-> new.entry,
                                             read |-> <<>>, val |-> heap[w],
                                             n |-> writer[w].n + 1]]
  /\ UNCHANGED <<entries, mutex, appended, replay, delivered>>
  /\ UNCHANGED <<registryVars, runVars, accessorVars>>

\* a Lock that never waits
MutexFreeAlways(locked) == TRUE

\* buffer.mutex.Lock() returns when the mutex is not locked
MutexFree(locked) == ~locked

\* bufferedOutput.add: buffer.mutex.Lock()
addLock(w) ==
  /\ writer[w].pc = "add"
  /\ MutexFree(mutex)
  /\ mutex' = TRUE
  /\ writer' = [writer EXCEPT ![w].pc = "locked"]
  /\ UNCHANGED <<entries, heap, appended, replay, delivered>>
  /\ UNCHANGED <<registryVars, runVars, accessorVars>>

\* bufferedOutput.add: append reads buffer.entries
addRead(w) ==
  /\ writer[w].pc = "locked"
  /\ writer' = [writer EXCEPT ![w].pc = "append", ![w].read = entries]
  /\ UNCHANGED <<entries, heap, mutex, appended, replay, delivered>>
  /\ UNCHANGED <<registryVars, runVars, accessorVars>>

\* bufferedOutput.add: buffer.entries is assigned the longer slice, the
\* deferred Unlock runs, Write returns
addAppend(w) ==
  /\ writer[w].pc = "append"
  /\ entries' = Append(writer[w].read, writer[w].entry)
  /\ appended' = Append(appended, [writer |-> w, n |-> writer[w].n,
                                   primary |-> writer[w].entry.primary,
                                   data |-> writer[w].val])
  /\ mutex' = FALSE
  /\ writer' = [writer EXCEPT ![w].pc = "idle"]
  /\ UNCHANGED <<heap, replay, delivered>>
  /\ UNCHANGED <<registryVars, runVars, accessorVars>>

\* bufferedOutput.WriteTo: Lock and currentEntries := buffer.entries; the
\* call gets a destination Output that nothing was written to
WriteToLock ==
  /\ replay.pc \in {"idle", "done"}
  /\ MutexFree(mutex)
  /\ mutex' = TRUE
  /\ replay' = [pc |-> "replay", currentEntries |-> entries, i |-> 1,
                lockLen |-> Len(appended)]
  /\ delivered' = <<>>
  /\ UNCHANGED <<entries, heap, writer, appended>>
  /\ UNCHANGED <<registryVars, runVars, accessorVars>>

\* w := other.Message; if entry.primary { w = other.Primary }
Route(entry) == IF entry.primary THEN "Primary" ELSE "Message"

\* bufferedOutput.WriteTo: one turn of the loop, w.Write(entry.data)
WriteToEntry ==
  /\ replay.pc = "replay"
  /\ replay.i <= Len(replay.currentEntries)
  /\ LET entry == replay.currentEntries[replay.i]
     IN  delivered' = Append(delivered, [to |-> Route(entry), data |-> heap[entry.data]])
  /\ replay' = [replay EXCEPT !.i = @ + 1]
  /\ UNCHANGED <<entries, heap, mutex, writer, appended>>
  /\ UNCHANGED <<registryVars, runVars, accessorVars>>

\* bufferedOutput.WriteTo: the loop is over, the deferred Unlock runs
WriteToUnlock ==
  /\ replay.pc = "replay"
  /\ replay.i > Len(replay.currentEntries)
  /\ mutex' = FALSE
  /\ replay' = [replay EXCEPT !.pc = "done"]
  /\ UNCHANGED <<entries, heap, writer, appended, delivered>>
  /\ UNCHANGED <<registryVars, runVars, accessorVars>>

\* ------------------------------------------------------- Params accessors
\* the keys and the texts the callers put in a Params value: the empty text,
\* literals of the types, and a text that is a literal of none
Keys == {"k", "j"}
Texts == {"", "0", "1", "true", "1.5", "2s", "abc"}

ErrParamNotSet == "parameter is not set"
ErrSyntax == "invalid syntax"
ErrDuration == "invalid duration"

\* p[key] = text and delete(p, key) of the code that owns the Params value
SetParam(key, text) ==
  /\ paramsMap' = [k \in DOMAIN paramsMap \cup {key} |->
                     IF k = key THEN text ELSE paramsMap[k]]
  /\ UNCHANGED got
  /\ UNCHANGED <<registryVars, runVars, bufferVars>>

DeleteParam(key) ==
  /\ key \in DOMAIN paramsMap
  /\ paramsMap' = [k \in DOMAIN paramsMap \ {key} |-> paramsMap[k]]
  /\ UNCHANGED got
  /\ UNCHANGED <<registryVars, runVars, bufferVars>>

\* v := p[key]: the empty string when the key is absent
Lookup(key) == IF key \in DOMAIN paramsMap THEN paramsMap[key] ELSE ""

\* strconv.ParseInt(v, 0, strconv.IntSize), strconv.ParseBool(v),
\* strconv.ParseFloat(v, 64) and time.ParseDuration(v) on the texts above;
\* a float is <<numerator, denominator>>, a duration its nanoseconds
ParseInt(v) ==
  CASE v = "0" -> [value |-> 0, err |-> NoErr]
    [] v = "1" -> [value |-> 1, err |-> NoErr]
    [] OTHER -> [value |-> 0, err |-> ErrSyntax]

ParseBool(v) ==
  CASE v \in {"1", "t", "T", "TRUE", "true", "True"} -> [value |-> TRUE, err |-> NoErr]
    [] v \in {"0", "f", "F", "FALSE", "false", "False"} -> [value |-> FALSE, err |-> NoErr]
    [] OTHER -> [value |-> FALSE, err |-> ErrSyntax]

ParseFloat(v) ==
  CASE v = "0" -> [value |-> <<0, 1>>, err |-> NoErr]
    [] v = "1" -> [value |-> <<1, 1>>, err |-> NoErr]
    [] v = "1.5" -> [value |-> <<3, 2>>, err |-> NoErr]
    [] OTHER -> [value |-> <<0, 1>>, err |-> ErrSyntax]

ParseDuration(v) ==
  CASE v = "0" -> [value |-> 0, err |-> NoErr]
    [] v = "2s" -> [value |-> 2000000000, err |-> NoErr]
    [] OTHER -> [value |-> 0, err |-> ErrDuration]

\* Params.Int without if v == "" { return 0, ErrParamNotSet }
ParamsIntUnchecked(key) == ParseInt(Lookup(key))

\* Params.Int, Params.Bool, Params.Float64, Params.Duration
ParamsInt(key) ==
  IF Lookup(key) = "" THEN [value |-> 0, err |-> ErrParamNotSet]
  ELSE ParseInt(Lookup(key))

ParamsBool(key) ==
  IF Lookup(key) = "" THEN [value |-> FALSE, err |-> ErrParamNotSet]
  ELSE ParseBool(Lookup(key))

ParamsFloat64(key) ==
  IF Lookup(key) = "" THEN [value |-> <<0, 1>>, err |-> ErrParamNotSet]
  ELSE ParseFloat(Lookup(key))

ParamsDuration(key) ==
  IF Lookup(key) = "" THEN [value |-> 0, err |-> ErrParamNotSet]
  ELSE ParseDuration(Lookup(key))

Accessors == {"Int", "Bool", "Float64", "Duration"}

\* a call of an accessor: got keeps the call, whether the key was present
\* and with what text, and the two results
Access(accessor, key) ==
  /\ LET r == CASE accessor = "Int" -> ParamsInt(key)
                [] accessor = "Bool" -> ParamsBool(key)
                [] accessor = "Float64" -> ParamsFloat64(key)
                [] accessor = "Duration" -> ParamsDuration(key)
     IN  got' = [accessor |-> accessor, key |-> key,
                 present |-> key \in DOMAIN paramsMap,
                 text |-> IF key \in DOMAIN paramsMap THEN paramsMap[key] ELSE "",
                 value |-> r.value, err |-> r.err]
  /\ UNCHANGED paramsMap
  /\ UNCHANGED <<registryVars, runVars, bufferVars>>

\* ---------------------------------------------------------- specification
\* a new Taskflow{} and no Run yet
Init ==
  /\ tasks = <<>>
  /\ tasksMade = FALSE
  /\ params = {}
  /\ verbose = FALSE
  /\ DefaultTask = NoName
  /\ regName = NoName
  /\ regErr = NoErr
  /\ pc = "idle"
  /\ ctxErr = NoErr
  /\ args = <<>>
  /\ argErr = FALSE
  /\ argHandler = NoName
  /\ paramValues = <<>>
  /\ usageRequested = FALSE
  /\ taskList = <<>>
  /\ reqi = 0
  /\ stack = <<>>
  /\ executed = {}
  /\ passed = FALSE
  /\ runErr = NoErr
  /\ code = NoCode
  /\ written = <<>>
  /\ invoked = <<>>
  /\ count = <<>>
  /\ countBefore = <<>>
  /\ entries = <<>>
  /\ heap = <<<<>>, <<>>>>
  /\ mutex = FALSE
  /\ writer = [w \in Writers |-> [pc |-> "idle", entry |-> [primary |-> FALSE, data |-> 0],
                                   read |-> <<>>, val |-> <<>>, n |-> 0]]
  /\ appended = <<>>
  /\ replay = [pc |-> "idle", currentEntries |-> <<>>, i |-> 0, lockLen |-> 0]
  /\ delivered = <<>>
  /\ paramsMap = <<>>
  /\ got = <<>>

\* the tasks the callers register: b and c depend on a as in Test_successful,
\* or c depends on b and a (a is reached twice); d groups b and c without a
\* Command (a diamond over a); b may also be a task without a Command and
\* without dependencies; and a task without a name
TaskInputs ==
  { Task("a", "log", <<>>, {}),
    Task("b", "log", <<"a">>, {IntName}),
    Task("b", "nil", <<>>, {}),
    Task("c", "log", <<"a">>, {}),
    Task("c", "log", <<"b", "a">>, {}),
    Task("d", "nil", <<"b", "c">>, {}),
    Task(NoName, "log", <<>>, {}) }

\* the tasks of the exploration of Register alone: every name, also none,
\* with every list of dependencies, also of names that are not registered
\* and of the zero RegisteredTask
RegisterNames == {"a", "b", "c"}
RegisterInputs ==
  { Task(n, c, deps, {}) : n \in RegisterNames \cup {NoName}, c \in {"nil", "log"},
                           deps \in SeqsUpTo(RegisterNames \cup {NoName}, MaxDeps) }

\* the tasks of Test_successful, and the chain c -> b -> a, with counting bodies
CountingInputs ==
  { Task("a", "count", <<>>, {}),
    Task("b", "count", <<"a">>, {}),
    Task("c", "count", <<"a">>, {}),
    Task("c", "count", <<"b">>, {}) }

\* the arguments of Run: task names, the verbose flag, the integer flag
\* alone, with a value and with a malformed value, a help token, an unknown
\* argument and an integer literal
ArgTokens ==
  { Bare("a"), Bare("b"), Bare("c"), Bare("d"), Bare(shortFlag(VerboseName)),
    Bare(longFlag(IntName)), Arg(longFlag(IntName), TRUE, "1"),
    Arg(longFlag(IntName), TRUE, "x"), Bare("-h"), Bare("zz"), Bare("1") }

Run ==
  \/ EndArgs
  \/ RunCall
  \/ RunDeps
  \/ CheckBefore
  \/ RunTask
  \/ CheckAfter
  \/ Return

Next ==
  \/ \E task \in TaskInputs : Register(task)
  \/ VerboseParam
  \/ RegisterIntParam
  \/ \E name \in TaskNames \cup {NoName, ForeignName} : SetDefaultTask(name)
  \/ RunBegin
  \/ \E arg \in ArgTokens : Len(args) < MaxArgs /\ HandleArg(arg)
  \/ Run
  \/ \E result \in Results : BodyEnd(result)
  \/ \E e \in CtxErrors : Cancel(e)

Spec == Init /\ [][Next]_vars

\* Register alone, with every input
NextRegister ==
  \/ \E task \in RegisterInputs : Register(task)

SpecRegister == Init /\ [][NextRegister]_vars

\* the scenario of Test_successful: counting bodies that pass, contexts that
\* are never done, and arguments that are task names or the verbose flag
NextCounting ==
  \/ \E task \in CountingInputs : Register(task)
  \/ RunBegin
  \/ \E arg \in {Bare("a"), Bare("b"), Bare("c"), Bare(shortFlag(VerboseName))} :
        Len(args) < MaxNames /\ HandleArg(arg)
  \/ Run
  \/ BodyEnd("PASS")

SpecCounting == Init /\ [][NextCounting]_vars

\* the parsing of the arguments alone: the tasks a and help (its name is a
\* help token), the integer and the string parameter, and as arguments task
\* names, help tokens, flags in bare form, an integer literal and an unknown
\* argument; bodies pass and the context is never done
ArgsTaskInputs == {Task("a", "log", <<>>, {}), Task("help", "log", <<>>, {})}

ArgsTokens ==
  { Bare("a"), Bare("help"), Bare("-h"), Bare(longFlag(StringName)),
    Bare(shortFlag(VerboseName)), Bare(longFlag(IntName)), Bare("1"), Bare("zz") }

NextArgs ==
  \/ \E task \in ArgsTaskInputs : Register(task)
  \/ RegisterIntParam
  \/ RegisterStringParam
  \/ RunBegin
  \/ \E arg \in ArgsTokens : Len(args) < MaxTokens /\ HandleArg(arg)
  \/ Run
  \/ BodyEnd("PASS")

SpecArgs == Init /\ [][NextArgs]_vars

\* the buffered output alone: goroutines that write, one that replays
NextBuffer ==
  \/ \E w \in Writers, bytes \in Payloads : Fill(w, bytes)
  \/ \E w \in Writers, primary \in BOOLEAN : Write(w, primary)
  \/ \E w \in Writers : addLock(w)
  \/ \E w \in Writers : addRead(w)
  \/ \E w \in Writers : addAppend(w)
  \/ WriteToLock
  \/ WriteToEntry
  \/ WriteToUnlock

SpecBuffer == Init /\ [][NextBuffer]_vars

\* the accessors of Params alone, on every Params value over the keys and
\* texts
NextParams ==
  \/ \E key \in Keys, text \in Texts : SetParam(key, text)
  \/ \E key \in Keys : DeleteParam(key)
  \/ \E accessor \in Accessors, key \in Keys : Access(accessor, key)

SpecParams == Init /\ [][NextParams]_vars

\* -------------------------------------------------------------- properties
RECURSIVE Closure(_)
\* the tasks of S and all they depend on, directly or not
Closure(S) ==
  LET more == S \cup UNION {Range(tasks[n].Dependencies) : n \in S \cap Registered}
  IN  IF more = S THEN S ELSE Closure(more)

\* the tasks a task depends on, directly or not
TransitiveDeps(name) ==
  IF name \in Registered THEN Closure(Range(tasks[name].Dependencies)) ELSE {}

HasBody(name) == name \in Registered /\ tasks[name].Command # "nil"

\* the names of the bodies started in this invocation
InvokedNames == {invoked[i].name : i \in 1..Len(invoked)}

\* runTasks has been entered in this invocation
InRunTasks == reqi >= 1

\* C1: in one invocation of Run the body of every task is invoked at most
\* once: no name occurs twice among the bodies the invocation has started.
C1_AtMostOnce ==
  \A i, j \in 1..Len(invoked) : invoked[i].name = invoked[j].name => i = j

\* a diamond is requested twice and has run: three bodies, each once
C1_Witness ==
  /\ pc = "returned"
  /\ code = CodePass
  /\ taskList = <<"d", "d">>
  /\ Len(invoked) = 3

\* C2: when runTasks returns and no body failed and the context was never
\* done, the bodies invoked are exactly those of the dependency closure of
\* the requested tasks, each invoked once, and the status code is 0.
C2_ClosureRuns ==
  (/\ pc = "returned"
   /\ InRunTasks
   /\ ctxErr = NoErr
   /\ \A i \in 1..Len(invoked) : invoked[i].result # "FAIL")
  => /\ code = 0
     /\ InvokedNames = {n \in Closure(Range(taskList)) : HasBody(n)}
     /\ \A n \in InvokedNames : Cardinality({i \in 1..Len(invoked) : invoked[i].name = n}) = 1

\* c, which depends on b and a, and a again are requested; all three bodies ran
C2_Witness ==
  /\ pc = "returned"
  /\ code = CodePass
  /\ ctxErr = NoErr
  /\ taskList = <<"c", "a">>
  /\ InvokedNames = {"a", "b", "c"}

\* C3: when a body is invoked, every task it depends on, directly or not, has
\* been processed before in this invocation and did not fail (its body passed
\* or was skipped, or it has no body); the dependencies of a task are
\* processed in their declared order, the requested tasks in argument order.
C3_DepsFirst ==
  /\ \A i \in 1..Len(invoked) :
       \A n \in TransitiveDeps(invoked[i].name) :
         /\ n \in executed
         /\ HasBody(n) => \E j \in 1..(i - 1) :
                            invoked[j].name = n /\ invoked[j].result \in {"PASS", "SKIP"}
  /\ \A k \in 1..Len(stack) :
       LET deps == TaskOf(stack[k].name).Dependencies
       IN  /\ \A d \in 1..(stack[k].dep - 1) : d <= Len(deps) /\ deps[d] \in executed
           /\ k < Len(stack) => /\ stack[k].dep <= Len(deps)
                                /\ stack[k + 1].name = deps[stack[k].dep]
  /\ stack # <<>> =>
       /\ stack[1].name = taskList[reqi]
       /\ \A r \in 1..(reqi - 1) : taskList[r] \in executed

\* the body of c is running as the second requested task; its dependencies b
\* (skipped) and a (passed) are done, in this order of the dependencies
C3_Witness ==
  /\ pc = "body"
  /\ Top.name = "c"
  /\ taskList = <<"a", "c">>
  /\ TaskOf("c").Dependencies = <<"b", "a">>
  /\ Len(invoked) = 3
  /\ invoked[2] = [name |-> "b", result |-> "SKIP"]

\* C4: once a body has failed, no other body is invoked in the invocation
\* (the failed body is the last one invoked) and Run returns 1; the tasks
\* whose bodies were invoked before it stay executed.
C4_StopAtFailure ==
  /\ \A i \in 1..Len(invoked) :
       /\ invoked[i].result = "FAIL" => i = Len(invoked)
       /\ i < Len(invoked) => invoked[i].name \in executed
  /\ (pc = "returned" /\ \E i \in 1..Len(invoked) : invoked[i].result = "FAIL")
       => code = 1 /\ "ok" \notin {written[i].kind : i \in 1..Len(written)}

\* b and c are requested and both depend only on a; a passed and b failed: c,
\* which does not depend on b, did not run
C4_Witness ==
  /\ pc = "returned"
  /\ taskList = <<"b", "c">>
  /\ TaskOf("c").Dependencies = <<"a">>
  /\ Len(invoked) = 2
  /\ invoked[1] = [name |-> "a", result |-> "PASS"]
  /\ invoked[2] = [name |-> "b", result |-> "FAIL"]
  /\ executed = {"a"}

\* the kinds of the lines written
WrittenKinds == {written[i].kind : i \in 1..Len(written)}

BodyFailed == \E i \in 1..Len(invoked) : invoked[i].result = "FAIL"

\* a check of ctx.Err() in run saw the context done
CancelObserved == runErr \in CtxErrors

\* no requested task and no default task
NoTaskResolved == taskList = <<>> /\ DefaultTask = NoName

\* C5 as stated: Run returns 0, 1 or 2; 2 if and only if the parsing of the
\* arguments failed or no task could be resolved; 1 if and only if the
\* arguments were valid, usage was not requested, and a body failed or a
\* check saw the cancellation; 0 otherwise.
C5_AsStated ==
  pc = "returned" =>
    /\ code \in {0, 1, 2}
    /\ code = 2 <=> (argErr \/ NoTaskResolved)
    /\ code = 1 <=> (~argErr /\ ~usageRequested /\ (BodyFailed \/ CancelObserved))

\* C5, amended: Run returns 0, 1 or 2; 2 if and only if the parsing of the
\* arguments failed, or usage was not requested and no task could be resolved;
\* 1 if and only if the arguments were valid, usage was not requested, and a
\* body failed or a check saw the cancellation; 0 otherwise.
C5_StatusCodes ==
  pc = "returned" =>
    /\ code \in {0, 1, 2}
    /\ code = 2 <=> (argErr \/ (~usageRequested /\ NoTaskResolved))
    /\ code = 1 <=> (~argErr /\ ~usageRequested /\ (BodyFailed \/ CancelObserved))

\* usage is requested, no task is named and there is no default task: Run
\* has returned 0
C5_Witness ==
  /\ pc = "returned"
  /\ usageRequested
  /\ ~argErr
  /\ NoTaskResolved
  /\ code = 0

\* executedN of a task, 0 before its body has run
Count(n) == IF n \in DOMAIN count THEN count[n] ELSE 0
CountBefore(n) == IF n \in DOMAIN countBefore THEN countBefore[n] ELSE 0
Got == <<Count("a"), Count("b"), Count("c")>>
GotBefore == <<CountBefore("a"), CountBefore("b"), CountBefore("c")>>

\* the chain T1 <- T2 <- T3 is registered
Chain ==
  /\ Registered = {"a", "b", "c"}
  /\ tasks["a"].Dependencies = <<>>
  /\ tasks["b"].Dependencies = <<"a">>
  /\ tasks["c"].Dependencies = <<"b">>

\* C6: no execution state persists between the invocations on one Taskflow.
\* With counting bodies that pass, every invocation that gets to runTasks
\* adds exactly one to the counter of every task of the closure of its
\* requested tasks, whatever ran before; a parameter value differs from its
\* default only if an argument of this invocation names its flag; and on the
\* chain, [T1], [T1,T2], [T1,T2,T3] take the counters from [0,0,0] to
\* [1,0,0], [2,1,0], [3,2,1].
C6_NoStateKept ==
  /\ (pc = "returned" /\ InRunTasks /\ ~BodyFailed /\ ~CancelObserved) =>
       \A n \in Registered :
         tasks[n].Command = "count" =>
           Count(n) = CountBefore(n) + (IF n \in Closure(Range(taskList)) THEN 1 ELSE 0)
  /\ pc # "idle" =>
       \A p \in DOMAIN paramValues :
         paramValues[p] # newValue(p) =>
           \E i \in 1..Len(args) : valuesByFlag(args[i].flag) = p
  /\ (Chain /\ pc = "returned" /\ taskList = <<"a">> /\ GotBefore = <<0, 0, 0>>)
       => Got = <<1, 0, 0>>
  /\ (Chain /\ pc = "returned" /\ taskList = <<"a", "b">> /\ GotBefore = <<1, 0, 0>>)
       => Got = <<2, 1, 0>>
  /\ (Chain /\ pc = "returned" /\ taskList = <<"a", "b", "c">> /\ GotBefore = <<2, 1, 0>>)
       => Got = <<3, 2, 1>>

\* the third invocation of the scenario has returned
C6_Witness ==
  /\ Chain
  /\ pc = "returned"
  /\ taskList = <<"a", "b", "c">>
  /\ GotBefore = <<2, 1, 0>>
  /\ Got = <<3, 2, 1>>

\* C7: if an argument causes a parsing error (an unknown argument, or a flag
\* value its parameter rejects), Run returns 2 at once and no body is invoked
\* in the invocation, also when task names come before the argument.
C7_ParseErrorRunsNothing ==
  argErr => pc = "returned" /\ code = 2 /\ invoked = <<>>

\* a registered task is named first, then the integer flag gets a value that
\* is no integer
C7_Witness ==
  /\ argErr
  /\ IntName \in params
  /\ args = <<Bare("a"), Arg(longFlag(IntName), TRUE, "x")>>
  /\ taskList = <<"a">>
  /\ code = 2

\* the lines that describe a failure
FailureKinds == {"unknown argument", "no task provided", "error"}

\* C8: every invocation of Run that ends with status 1 or 2 has written a
\* line that describes the failure to the output before it returns.
C8_FailureLine ==
  (pc = "returned" /\ code \in {1, 2}) => WrittenKinds \cap FailureKinds # {}

\* C9: a Register call that fails leaves the registered tasks as they were;
\* a Register call that succeeds adds exactly the task of its name and changes
\* no other task.
C9_RegisterAtomic ==
  [][(pc = "idle" /\ pc' = "idle") =>
       /\ regErr' # NoErr => tasks' = tasks
       /\ (regErr' = NoErr /\ <<regName, regErr, tasks>> # <<regName', regErr', tasks'>>) =>
            /\ regName' \notin DOMAIN tasks
            /\ DOMAIN tasks' = DOMAIN tasks \cup {regName'}
            /\ tasks'[regName'].Name = regName'
            /\ \A n \in DOMAIN tasks : tasks'[n] = tasks[n]]_vars

\* the last Register call was rejected for its name, with two tasks registered
C9_Witness ==
  /\ regErr = ErrRegistered
  /\ Cardinality(Registered) = 2

\* C10: after any sequence of Register calls the names of the tasks are
\* unique and not empty, every dependency of a registered task is a
\* registered task, and no task depends on itself, directly or not.
C10_RegistryValid ==
  \A n \in Registered :
    /\ n # NoName
    /\ tasks[n].Name = n
    /\ Range(tasks[n].Dependencies) \subseteq Registered
    /\ n \notin TransitiveDeps(n)

\* three tasks are registered, one depends on the two others, and a call
\* after them was rejected
C10_Witness ==
  /\ Cardinality(Registered) = 3
  /\ \E n \in Registered : Cardinality(TransitiveDeps(n)) = 2
  /\ regErr = ErrRegistered

\* the lines of the tasks: start marker, body output, end marker
TaskOutputKinds == {"TASK", "log", "PASS", "FAIL", "SKIP"}
IsTaskOutput(line) == line.kind \in TaskOutputKinds
TaskOutput == SelectSeq(written, IsTaskOutput)

\* C11: when the verbose switch is false, the output holds lines of a task
\* if and only if the body of that task failed, and then all the lines of
\* that task in the order they were written: start marker, body output, end
\* marker. Nothing of a task that passed or was skipped is in the output,
\* also not of the dependencies of the task that failed.
C11_FailureForwarded ==
  (InRunTasks /\ ~Verbose) =>
    TaskOutput =
      IF BodyFailed
      THEN LET f == invoked[Len(invoked)].name
           IN  <<Line("TASK", f)>>
                 \o (IF tasks[f].Command = "log" THEN <<Line("log", f)>> ELSE <<>>)
                 \o <<Line("FAIL", f)>>
      ELSE <<>>

\* not verbose: a passed, then b, which depends on a, failed; the output
\* holds the three lines of b and none of a
C11_Witness ==
  /\ pc = "returned"
  /\ ~Verbose
  /\ invoked = <<[name |-> "a", result |-> "PASS"], [name |-> "b", result |-> "FAIL"]>>
  /\ TaskOutput = <<Line("TASK", "b"), Line("log", "b"), Line("FAIL", "b")>>

\* the argument is a registered non-boolean flag in bare form (and no task)
BareValueFlag(arg) ==
  /\ ~arg.eq
  /\ arg.flag \notin Registered
  /\ valuesByFlag(arg.flag) # NoName
  /\ ~IsBool(valuesByFlag(arg.flag))

RECURSIVE Pending(_)
\* after the i-th argument the value of its flag is awaited: the argument is
\* a registered non-boolean flag in bare form and is not itself a value
Pending(i) == i >= 1 /\ i <= Len(args) /\ ~Pending(i - 1) /\ BareValueFlag(args[i])

\* the i-th argument is the value of the flag before it
Consumed(i) == Pending(i - 1)

\* the i-th argument is a help token that no task and no flag overrides
PlainHelp(i) ==
  /\ ArgText(args[i]) \in HelpTokens
  /\ ArgText(args[i]) \notin Registered
  /\ valuesByFlag(args[i].flag) = NoName

UsageWritten == Usage \in Range(written)

\* C12 as stated: if the arguments parse without error and one of them is a
\* help token that is no registered task name and no flag, Run prints usage,
\* returns 0 and invokes no body.
C12_AsStated ==
  (pc \notin {"idle", "args"} /\ ~argErr /\ \E i \in 1..Len(args) : PlainHelp(i))
    => pc = "returned" /\ code = 0 /\ UsageWritten /\ invoked = <<>>

\* C12, amended: if the arguments parse without error and one of them is a
\* help token that is no registered task name, no flag and not the value of
\* the flag before it, Run prints usage, returns 0 and invokes no body, also
\* when the arguments name tasks.
C12_HelpUsage ==
  (pc \notin {"idle", "args"} /\ ~argErr
     /\ \E i \in 1..Len(args) : PlainHelp(i) /\ ~Consumed(i))
    => pc = "returned" /\ code = 0 /\ UsageWritten /\ invoked = <<>>

\* a task is named, then help is asked for: usage and status 0, no body
C12_Witness ==
  /\ pc = "returned"
  /\ args = <<Bare("a"), Bare("-h")>>
  /\ taskList = <<"a">>
  /\ code = 0
  /\ UsageWritten
  /\ invoked = <<>>

RECURSIVE NamedTasks(_)
\* the task list after i arguments: the arguments that are registered task
\* names and not the value of the flag before them, in their order
NamedTasks(i) ==
  IF i = 0 THEN <<>>
  ELSE IF ~Consumed(i) /\ ArgText(args[i]) \in Registered
       THEN Append(NamedTasks(i - 1), ArgText(args[i]))
       ELSE NamedTasks(i - 1)

RECURSIVE ValueAfter(_, _)
\* the value of parameter p after i arguments: the default value, set by
\* every value argument after its bare flag, by every flag=value and, if
\* boolean, by every bare flag; a text that Set rejects leaves it as it was
ValueAfter(p, i) ==
  IF i = 0 THEN newValue(p)
  ELSE LET prev == ValueAfter(p, i - 1)
           arg == args[i]
       IN  IF Consumed(i)
           THEN IF valuesByFlag(args[i - 1].flag) = p
                THEN Set(p, prev, ArgText(arg)).value
                ELSE prev
           ELSE IF ArgText(arg) \in Registered \/ valuesByFlag(arg.flag) # p THEN prev
           ELSE IF arg.eq THEN Set(p, prev, arg.val).value
           ELSE IF IsBool(p) THEN Set(p, prev, "").value
           ELSE prev

\* C18: the scan of the arguments keeps one pending value consumer. After a
\* registered non-boolean flag in bare form exactly the next argument is
\* handed to Set of that flag as its value, whatever it is (a task name,
\* another flag, a help token: it is not added to the task list and requests
\* no usage), and the argument after it is parsed by the normal rules; a
\* boolean flag in bare form consumes nothing. At every point of the scan
\* the consumer is pending exactly after such a flag, the task list is the
\* arguments that name tasks and are no values, every parameter has the
\* value the arguments up to here give it, and usage is requested exactly if
\* a help token was parsed by the normal rules.
C18_PendingConsumer ==
  pc # "idle" =>
    /\ pc = "args" =>
         /\ argHandler # NoName <=> Pending(Len(args))
         /\ argHandler # NoName => argHandler = valuesByFlag(args[Len(args)].flag)
    /\ \/ taskList = NamedTasks(Len(args))
       \/ NamedTasks(Len(args)) = <<>> /\ taskList = <<DefaultTask>>
    /\ \A p \in DOMAIN paramValues : paramValues[p] = ValueAfter(p, Len(args))
    /\ usageRequested <=> \E i \in 1..Len(args) : PlainHelp(i) /\ ~Consumed(i)

\* the string flag took the task name a as its value, and the a after it
\* was parsed as a task again
C18_Witness ==
  /\ pc = "args"
  /\ Registered = {"a", "help"}
  /\ StringName \in DOMAIN paramValues
  /\ args = <<Bare(longFlag(StringName)), Bare("a"), Bare("a")>>
  /\ paramValues[StringName] = "a"
  /\ taskList = <<"a">>
  /\ argHandler = NoName

\* the arguments were parsed without error, request no usage and name no task
NoTaskNamed == ~argErr /\ ~usageRequested /\ NamedTasks(Len(args)) = <<>>

\* the invocation is as Run is with the name of the default task as its one
\* task argument: a registered name is the task list; a name that is not
\* registered is an unknown argument, status 2, and nothing runs
AsIfRequested ==
  IF DefaultTask \in Registered
  THEN taskList = <<DefaultTask>>
  ELSE pc = "returned" /\ code = CodeInvalidArgs /\ invoked = <<>>

\* C13: of an invocation that comes to resolve its tasks (the arguments were
\* parsed and request no usage) and whose arguments name no task: without a
\* default task Run writes "no task provided", returns 2 and invokes no body;
\* with a default task it goes on exactly as if the name of the default task
\* had been the only requested task.
C13_DefaultTask ==
  (pc \notin {"idle", "args"} /\ NoTaskNamed) =>
    IF DefaultTask = NoName
    THEN /\ pc = "returned"
         /\ code = CodeInvalidArgs
         /\ "no task provided" \in WrittenKinds
         /\ invoked = <<>>
    ELSE AsIfRequested

\* a step that starts a body
BodyStarts == Len(invoked') > Len(invoked)

\* C14 as stated: no body is started after the cancellation has fired: at
\* every start of a body the context is not done; and once a check has
\* observed the cancellation no further body is started.
C14_AsStated ==
  [][BodyStarts => ctxErr = NoErr /\ ~CancelObserved]_vars

\* C14, amended: no body is started after a check has observed the
\* cancellation: run comes to runTask only from the check of ctx.Err() right
\* before it, which found the context not done (the context can be done
\* between that check and the start of the body); and once a check has
\* observed the cancellation no further body is started.
C14_NoStartOnceObserved ==
  [][/\ (pc # "runTask" /\ pc' = "runTask") => pc = "check" /\ ctxErr = NoErr
     /\ BodyStarts => pc = "runTask" /\ ~CancelObserved
     /\ (CancelObserved /\ pc' # "idle") => invoked' = invoked]_vars

\* b depends on a; a passed and is executed, then the check before b saw the
\* context done: the body of b was not started
C14_Witness ==
  /\ pc = "returned"
  /\ CancelObserved
  /\ taskList = <<"b">>
  /\ TaskOf("b").Command = "log"
  /\ executed = {"a"}
  /\ invoked = <<[name |-> "a", result |-> "PASS"]>>

\* run returns the error of the context: runTasks prints it and returns 1,
\* the task under the check is not marked executed, no body starts
AbortsWithCtxErr ==
  /\ pc' = "returned"
  /\ code' = CodeFailure
  /\ runErr' = ctxErr
  /\ written' = Append(written, Line("error", ctxErr))
  /\ Line("error", ErrTaskFailed) \notin Range(written')
  /\ executed' = executed
  /\ Top.name \notin executed'
  /\ invoked' = invoked

\* C19: the cancellation is checked right before and right after every body.
\* If the context is done when the body has returned (it was cancelled while
\* the body ran), run returns at once, also when the body passed: the task
\* is not marked executed, Run returns 1 and the error printed is the text
\* of the context's error, not "task failed", also when the body failed.
C19_CancelDuringBody ==
  [][(pc \in {"check", "after"} /\ ctxErr # NoErr) => AbortsWithCtxErr]_vars

\* the body of a passed while the context was cancelled: a is not executed,
\* Run has returned 1 and printed the error of the context
C19_Witness ==
  /\ pc = "returned"
  /\ CancelObserved
  /\ code = CodeFailure
  /\ invoked = <<[name |-> "a", result |-> "PASS"]>>
  /\ "a" \notin executed
  /\ written[Len(written)] = Line("error", runErr)

\* what holds of every member of the already-executed set
ExecutedMember(n) ==
  /\ n \in Registered
  /\ HasBody(n) => \E i \in 1..Len(invoked) :
                     invoked[i].name = n /\ invoked[i].result \in {"PASS", "SKIP"}
  /\ \A i \in 1..Len(invoked) : invoked[i].name = n => invoked[i].result # "FAIL"
  /\ Range(tasks[n].Dependencies) \subseteq executed

\* C20: in every state of runTasks the already-executed set holds only
\* registered tasks that were processed without failure (the body passed or
\* was skipped, or there is no body), never a task whose body failed, and
\* with every member all its dependencies; and it only grows in the
\* invocation.
C20_ExecutedSet ==
  [][InRunTasks' => /\ \A n \in executed' : ExecutedMember(n)'
                    /\ InRunTasks => executed \subseteq executed']_vars

IsPrefix(s, t) == Len(s) <= Len(t) /\ \A i \in 1..Len(s) : s[i] = t[i]

\* what WriteTo has to hand to the destination for the first k Write calls
Expected(k) ==
  [i \in 1..k |-> [to |-> IF appended[i].primary THEN "Primary" ELSE "Message",
                   data |-> appended[i].data]]

\* C15: when WriteTo has returned, the destination was handed exactly the
\* payloads of the Write calls whose entries were appended before WriteTo
\* took the lock: each with the bytes its caller's slice held when Write was
\* called (whatever the caller put in the slice later), each on the writer of
\* the stream it was written to, in the order of the appends.
C15_RoundTrip ==
  replay.pc = "done" => delivered = Expected(replay.lockLen)

\* one goroutine wrote to both streams, other bytes the second time; both
\* writes were replayed, and the slice of the first write holds other bytes
\* by now
C15_Witness ==
  /\ replay.pc = "done"
  /\ Len(delivered) = 2
  /\ {delivered[i].to : i \in 1..2} = {"Primary", "Message"}
  /\ appended[1].writer = appended[2].writer
  /\ appended[1].data # appended[2].data
  /\ heap[appended[1].writer] # appended[1].data
  /\ delivered[1].data = appended[1].data

\* the log is the Write calls in the order of their appends: an entry for
\* each, with its stream and bytes
LogIsAppended ==
  /\ Len(entries) = Len(appended)
  /\ \A i \in 1..Len(entries) :
       /\ entries[i].primary = appended[i].primary
       /\ heap[entries[i].data] = appended[i].data

\* the appends of one goroutine are in the order of its calls
OwnOrder ==
  \A i, j \in 1..Len(appended) :
    (i < j /\ appended[i].writer = appended[j].writer) => appended[i].n < appended[j].n

\* every goroutine has returned from its Write calls
AllReturned == \A w \in Writers : writer[w].pc = "idle"

\* C17: with several goroutines writing to one buffer no append is lost or
\* duplicated: the log always is the sequence of the appends made, it only
\* grows, the entries of one goroutine are in the order of its calls, and
\* when all goroutines have returned it has one entry per Write call. A
\* WriteTo that runs while goroutines write replays the entries appended
\* before it took the lock, a prefix of the log at any later time, and does
\* not change the log.
C17_AppendsOrdered ==
  [][/\ LogIsAppended'
     /\ OwnOrder'
     /\ AllReturned' => Len(entries') = WriteCalls'
     /\ IsPrefix(entries, entries')
     /\ replay'.pc # "idle" =>
          /\ Len(replay'.currentEntries) = replay'.lockLen
          /\ IsPrefix(replay'.currentEntries, entries')
     /\ replay' # replay => entries' = entries]_vars

\* WriteTo is replaying the one entry of the log while the other goroutine,
\* which called Write before WriteTo took the lock, waits for the mutex
C17_Witness ==
  /\ replay.pc = "replay"
  /\ replay.i = 2
  /\ Len(entries) = 1
  /\ \E w \in Writers : writer[w].pc = "add" /\ appended[1].writer # w

\* the literals of each type among the texts, and what they denote
Literals ==
  [Int |-> [t \in {"0", "1"} |-> IF t = "0" THEN 0 ELSE 1],
   Bool |-> [t \in {"0", "1", "true"} |-> t # "0"],
   Float64 |-> [t \in {"0", "1", "1.5"} |->
                  IF t = "0" THEN <<0, 1>> ELSE IF t = "1" THEN <<1, 1>> ELSE <<3, 2>>],
   Duration |-> [t \in {"0", "2s"} |-> IF t = "0" THEN 0 ELSE 2000000000]]

IsLiteral(accessor, text) == text \in DOMAIN Literals[accessor]

Called == got # <<>>

\* C16 as stated: for every accessor and key: an absent key gives
\* ErrParamNotSet; a present key with a text that is no literal of the type
\* gives a conversion error that is not ErrParamNotSet; a present key with a
\* literal gives its value and no error.
C16_AsStated ==
  Called =>
    /\ ~got.present => got.err = ErrParamNotSet
    /\ (got.present /\ ~IsLiteral(got.accessor, got.text)) =>
         got.err \notin {NoErr, ErrParamNotSet}
    /\ (got.present /\ IsLiteral(got.accessor, got.text)) =>
         got.err = NoErr /\ got.value = Literals[got.accessor][got.text]

\* C16, amended: for every accessor and key: an absent key, and a present
\* key with the empty text, give ErrParamNotSet; a present key with a text
\* that is not empty and no literal of the type gives a conversion error that
\* is not ErrParamNotSet; a present key with a literal gives its value and no
\* error.
C16_Accessors ==
  Called =>
    /\ (~got.present \/ got.text = "") => got.err = ErrParamNotSet
    /\ (got.present /\ got.text # "" /\ ~IsLiteral(got.accessor, got.text)) =>
         got.err \notin {NoErr, ErrParamNotSet}
    /\ (got.present /\ IsLiteral(got.accessor, got.text)) =>
         got.err = NoErr /\ got.value = Literals[got.accessor][got.text]

\* Int was called for a key that is present with the empty text
C16_Witness ==
  /\ Called
  /\ got.accessor = "Int"
  /\ got.present
  /\ got.text = ""
  /\ got.err = ErrParamNotSet

\* the last argument is a registered non-boolean flag in bare form whose
\* value is awaited: the argument list ends with it
EndsWithBareFlag == pc \notin {"idle", "args"} /\ Pending(Len(args))

\* the parameter of the last argument
LastFlag == valuesByFlag(args[Len(args)].flag)

\* the tasks that the arguments before the last one name, or the default task
TasksBefore ==
  IF NamedTasks(Len(args) - 1) = <<>> /\ DefaultTask # NoName
  THEN <<DefaultTask>>
  ELSE NamedTasks(Len(args) - 1)

\* C21 as stated: if the argument list ends with a registered non-boolean
\* flag in bare form, parsing reports no error, the value consumer is never
\* called, the parameter has its default value, and Run goes on to run the
\* requested (or default) tasks and does not return 2.
C21_AsStated ==
  EndsWithBareFlag =>
    /\ ~argErr
    /\ paramValues[LastFlag] = newValue(LastFlag)
    /\ InRunTasks
    /\ taskList = TasksBefore
    /\ code # CodeInvalidArgs

\* C21, amended: if the argument list ends with a registered non-boolean
\* flag in bare form, parsing reports no error, the value consumer is never
\* called, every parameter keeps the value the arguments before the flag
\* gave it (its default value unless one of them set it), and Run goes on as
\* if the flag had not been given: if usage was requested it prints usage and
\* returns 0; else it runs the requested (or default) tasks, and returns 2
\* only if there is none.
C21_TrailingFlag ==
  EndsWithBareFlag =>
    /\ ~argErr
    /\ \A p \in DOMAIN paramValues : paramValues[p] = ValueAfter(p, Len(args) - 1)
    /\ IF \E i \in 1..Len(args) : PlainHelp(i) /\ ~Consumed(i)
       THEN pc = "returned" /\ code = CodePass /\ UsageWritten /\ ~InRunTasks
       ELSE IF TasksBefore = <<>>
       THEN /\ pc = "returned"
            /\ code = CodeInvalidArgs
            /\ "no task provided" \in WrittenKinds
            /\ ~InRunTasks
       ELSE /\ InRunTasks
            /\ taskList = TasksBefore
            /\ code # CodeInvalidArgs

\* a is requested and the integer flag ends the arguments: a has run, the
\* parameter has its default value, Run has returned 0
C21_Witness ==
  /\ pc = "returned"
  /\ args = <<Bare("a"), Bare(longFlag(IntName))>>
  /\ IntName \in DOMAIN paramValues
  /\ paramValues[IntName] = 0
  /\ invoked = <<[name |-> "a", result |-> "PASS"]>>
  /\ code = CodePass

====
